---------------------------- MODULE Spec2Model ----------------------------
(***************************************************************************)
(* Model of rpgm-archive-decrypter-lib (src/src/lib.rs): the Decrypter     *)
(* state machine that parses an RGSSAD archive header, decodes the Older   *)
(* or VXAce entry table, decrypts every entry and writes it to the file    *)
(* system.                                                                 *)
(*                                                                         *)
(* Number representation.  TLC integers are 32-bit signed, so              *)
(*   - an i32 is a TLC integer in -2^31 .. 2^31-1;                         *)
(*   - a u32 is a record [hi, lo] of its two 16-bit halves;                *)
(*   - a usize is a TLC integer; a negative i32 cast to usize (a value at  *)
(*     least 2^64 - 2^31) is kept as the negative integer it came from,    *)
(*     and every operation that uses it states what the cast would do.     *)
(***************************************************************************)
EXTENDS Integers, Sequences, FiniteSets, TLC

VARIABLES
    data,         \* Decrypter.data: the archive bytes of the current call
    pos,          \* Decrypter.pos: the read cursor
    len,          \* Decrypter.len
    force,        \* Decrypter.force
    engine_type,  \* Decrypter.engine_type: "Older" | "VXAce"
    key,          \* Decrypter.key (u32)
    key_bytes,    \* Decrypter.key_bytes ([u8; 4])
    pc,           \* position of the caller / of extract
    entry,        \* the ArchiveEntry under construction in extract_entries
    entries,      \* the Vec<ArchiveEntry> of extract_entries / extract
    idx,          \* index of the next entry of extract's for loop
    sink,         \* the file system: [files, dirs]
    result,       \* what the last extract call returned
    calls,        \* number of extract calls made on this Decrypter
    input,        \* the archive handed to the current call, with how it was built
    sink0,        \* history: the sink when the current call started
    writes,       \* history: the writes of the current call, in order
    key0          \* history: the key at the start of the current table entry

vars == <<data, pos, len, force, engine_type, key, key_bytes, pc, entry,
          entries, idx, sink, result, calls, input, sink0, writes, key0>>

(***************************************************************************)
(* Fixed-width arithmetic                                                  *)
(***************************************************************************)

U32(h, l) == [hi |-> h, lo |-> l]

\* u32::wrapping_mul(m).wrapping_add(a) for small m, a (lines 172, 189, 216, 248)
wrapping_mul_add(k, m, a) ==
    LET l == k.lo * m + a
    IN  [hi |-> (k.hi * m + (l \div 65536)) % 65536, lo |-> l % 65536]

\* the recurrence key' = key * 7 + 3 (mod 2^32)
NextKey(k) == wrapping_mul_add(k, 7, 3)

\* u32::to_le_bytes
to_le_bytes(k) == <<k.lo % 256, k.lo \div 256, k.hi % 256, k.hi \div 256>>

\* `x as i32` for a u32 x
AsI32(k) == (IF k.hi >= 32768 THEN k.hi - 65536 ELSE k.hi) * 65536 + k.lo

\* `x as u32` for an i32 x
AsU32(i) == [hi |-> (i \div 65536) % 65536, lo |-> i % 65536]

\* `x as u8` for a u32 x
AsU8(k) == k.lo % 256

\* i32::from_le_bytes of 4 bytes
from_le_bytes(b) == AsI32(U32(b[3] + 256 * b[4], b[1] + 256 * b[2]))

\* the XOR of the n low bits of a and b, bit n - 1 first
RECURSIVE XorBits(_, _, _)
XorBits(a, b, n) ==
    IF n = 0 THEN 0
    ELSE (((a \div 2^(n - 1)) + (b \div 2^(n - 1))) % 2) * 2^(n - 1)
             + XorBits(a, b, n - 1)

\* u8 ^ u8
Xor8(a, b) == XorBits(a, b, 8)

\* i32 ^ i32
XorI32(i, j) ==
    LET a == AsU32(i)
        b == AsU32(j)
    IN  AsI32(U32(XorBits(a.hi, b.hi, 16), XorBits(a.lo, b.lo, 16)))

ARCHIVE_HEADER == <<82, 71, 83, 83, 65, 68>>

OLDER_DEFAULT_KEY == U32(57005, 51966)


(***************************************************************************)
(* Decrypter: its methods, as operators from the Decrypter (`self`, a      *)
(* record of its fields) to the Decrypter they leave and what they return. *)
(* ok = FALSE is a panic of the method.                                    *)
(***************************************************************************)

\* Decrypter::new
new ==
    [data        |-> <<>>,
     pos         |-> 0,
     len         |-> 0,
     force       |-> FALSE,
     engine_type |-> "Older",
     key         |-> OLDER_DEFAULT_KEY,
     key_bytes   |-> to_le_bytes(OLDER_DEFAULT_KEY)]

\* Decrypter::set_force (and the builder Decrypter::force)
set_force(self, enabled) == [self EXCEPT !.force = enabled]

\* Decrypter::update_key: the key and its little-endian bytes, set together
update_key(self, new_key) ==
    [self EXCEPT !.key = new_key, !.key_bytes = to_le_bytes(new_key)]

\* read_bytes with no bounds check on the slice: what lies past the buffer
\* end reads as zero
read_bytes_zero_filled(self, bytes) ==
    [ok    |-> TRUE,
     self  |-> [self EXCEPT !.pos = @ + bytes],
     bytes |-> [i \in 1..bytes |->
                   IF self.pos + i \in 1..Len(self.data) THEN self.data[self.pos + i]
                   ELSE 0]]

\* Decrypter::read_bytes: the cursor moves by `bytes`, then the slice
\* data[pos - bytes .. pos] is taken; the slice panics when it does not lie in
\* the buffer.  A negative `bytes` or cursor stands for a usize of at least
\* 2^64 - 2^31: the addition overflows or the slice is out of range.  (On a
\* panic the cursor, which the code has moved already, is left as it was: no
\* method runs on the Decrypter after a panic.)
read_bytes(self, bytes) ==
    LET ok == self.pos >= 0 /\ bytes >= 0 /\ bytes <= Len(self.data) - self.pos
    IN  [ok    |-> ok,
         self  |-> IF ok THEN [self EXCEPT !.pos = @ + bytes] ELSE self,
         bytes |-> IF ok THEN SubSeq(self.data, self.pos + 1, self.pos + bytes)
                   ELSE <<>>]

\* read_int that leaves the cursor where it was (the 4 bytes are peeked)
read_int_peeks(self) ==
    LET chunk == read_bytes(self, 4)
    IN  [ok   |-> chunk.ok,
         self |-> self,
         val  |-> IF chunk.ok THEN from_le_bytes(chunk.bytes) ELSE 0]

\* Decrypter::read_int
read_int(self) ==
    LET chunk == read_bytes(self, 4)
    IN  [ok   |-> chunk.ok,
         self |-> chunk.self,
         val  |-> IF chunk.ok THEN from_le_bytes(chunk.bytes) ELSE 0]

\* Decrypter::read_byte: data[pos - 1] after the cursor moved by one
read_byte(self) ==
    LET ok == self.pos >= 0 /\ self.pos < Len(self.data)
    IN  [ok   |-> ok,
         self |-> IF ok THEN [self EXCEPT !.pos = @ + 1] ELSE self,
         val  |-> IF ok THEN self.data[self.pos + 1] ELSE 0]

\* Decrypter::seek_byte
seek_byte(self, offset, seek_from) ==
    [self EXCEPT !.pos = IF seek_from = "Start" THEN offset ELSE @ + offset]

\* decrypt_int with the engine test lost: the key advances for VXAce too
decrypt_int_always_advances(self) ==
    LET int == read_int(self)
    IN  [ok   |-> int.ok,
         self |-> IF int.ok THEN update_key(int.self, NextKey(self.key)) ELSE int.self,
         val  |-> IF int.ok THEN XorI32(int.val, AsI32(self.key)) ELSE 0]

\* Decrypter::decrypt_int: the int XOR the key; only Older advances the key
decrypt_int(self) ==
    LET int == read_int(self)
    IN  [ok   |-> int.ok,
         self |-> IF int.ok /\ self.engine_type = "Older"
                  THEN update_key(int.self, NextKey(self.key))
                  ELSE int.self,
         val  |-> IF int.ok THEN XorI32(int.val, AsI32(self.key)) ELSE 0]

\* the Older filename loop with the update_key of line 216 lost
older_filename_fixed_key(self, bytes, i) ==
    [self |-> self,
     name |-> [j \in 1..(Len(bytes) - i + 1) |-> Xor8(bytes[i + j - 1], AsU8(self.key))]]

\* the Older branch of decrypt_filename: byte ^ (key as u8), the key advancing
\* after every byte
RECURSIVE older_filename(_, _, _)
older_filename(self, bytes, i) ==
    IF i > Len(bytes) THEN [self |-> self, name |-> <<>>]
    ELSE LET rest == older_filename(update_key(self, NextKey(self.key)), bytes, i + 1)
         IN  [self |-> rest.self,
              name |-> <<Xor8(bytes[i], AsU8(self.key))>> \o rest.name]

\* the VXAce filename loop advancing the key at every fourth byte, as the
\* loop of decrypt_entry does
vxace_filename_advancing(self, bytes, i, key_byte_pos) ==
    LET RECURSIVE stream(_, _, _)
        stream(j, k, kp) ==
            IF j > Len(bytes) THEN <<>>
            ELSE LET k2  == IF kp = 4 THEN NextKey(k) ELSE k
                     kp2 == IF kp = 4 THEN 0 ELSE kp
                 IN  <<Xor8(bytes[j], to_le_bytes(k2)[kp2 + 1])>> \o stream(j + 1, k2, kp2 + 1)
    IN  stream(i, self.key, key_byte_pos)

\* the VXAce branch of decrypt_filename: byte ^ key_bytes[key_byte_pos], the
\* position going back to 0 at 4 and the key left alone
RECURSIVE vxace_filename(_, _, _, _)
vxace_filename(self, bytes, i, key_byte_pos) ==
    IF i > Len(bytes) THEN <<>>
    ELSE LET kp == IF key_byte_pos = 4 THEN 0 ELSE key_byte_pos
         IN  <<Xor8(bytes[i], self.key_bytes[kp + 1])>>
                 \o vxace_filename(self, bytes, i + 1, kp + 1)

\* Decrypter::decrypt_filename: reads entry.filename_bytes.capacity() bytes
\* and pushes their decryption to entry.filename_bytes
decrypt_filename(self, e) ==
    LET raw == read_bytes(self, e.capacity)
        old == older_filename(raw.self, raw.bytes, 1)
    IN  IF ~raw.ok THEN [ok |-> FALSE, self |-> self, entry |-> e]
        ELSE IF self.engine_type = "VXAce"
        THEN [ok    |-> TRUE,
              self  |-> raw.self,
              entry |-> [e EXCEPT !.filename_bytes =
                                      @ \o vxace_filename(raw.self, raw.bytes, 1, 0)]]
        ELSE [ok    |-> TRUE,
              self  |-> old.self,
              entry |-> [e EXCEPT !.filename_bytes = @ \o old.name]]

\* the loop of decrypt_entry with the block test off by one: the key advances
\* when key_byte_pos reaches 3
RECURSIVE decrypt_content_block_of_3(_, _, _, _)
decrypt_content_block_of_3(content, i, k, key_byte_pos) ==
    IF i > Len(content) THEN <<>>
    ELSE LET k2 == IF key_byte_pos = 3 THEN NextKey(k) ELSE k
             kp == IF key_byte_pos = 3 THEN 0 ELSE key_byte_pos
         IN  <<Xor8(content[i], to_le_bytes(k2)[kp + 1])>>
                 \o decrypt_content_block_of_3(content, i + 1, k2, kp + 1)

\* the loop of decrypt_entry, over a key of its own: the key advances when
\* key_byte_pos reaches 4
RECURSIVE decrypt_content(_, _, _, _)
decrypt_content(content, i, k, key_byte_pos) ==
    IF i > Len(content) THEN <<>>
    ELSE LET k2 == IF key_byte_pos = 4 THEN NextKey(k) ELSE k
             kp == IF key_byte_pos = 4 THEN 0 ELSE key_byte_pos
         IN  <<Xor8(content[i], to_le_bytes(k2)[kp + 1])>>
                 \o decrypt_content(content, i + 1, k2, kp + 1)

\* decrypt_entry running its keystream in the Decrypter's own key: the entry's
\* key replaces the table key
decrypt_entry_in_table_key(self, e) ==
    LET content == read_bytes(seek_byte(update_key(self, e.key), e.offset, "Start"), e.size)
    IN  [ok   |-> content.ok,
         self |-> content.self,
         out  |-> IF content.ok THEN decrypt_content(content.bytes, 1, content.self.key, 0)
                  ELSE <<>>]

\* decrypt_entry seeking from the cursor (SeekFrom::Current) instead of from
\* the start of the buffer
decrypt_entry_seeks_from_current(self, e) ==
    LET content == read_bytes(seek_byte(self, e.offset, "Current"), e.size)
    IN  [ok   |-> content.ok,
         self |-> content.self,
         out  |-> IF content.ok THEN decrypt_content(content.bytes, 1, e.key, 0)
                  ELSE <<>>]

\* Decrypter::decrypt_entry: seek to entry.offset, read entry.size bytes and
\* decrypt them with a keystream seeded with entry.key
decrypt_entry(self, e) ==
    LET content == read_bytes(seek_byte(self, e.offset, "Start"), e.size)
    IN  [ok   |-> content.ok,
         self |-> content.self,
         out  |-> IF content.ok THEN decrypt_content(content.bytes, 1, e.key, 0)
                  ELSE <<>>]

\* parse_header with the two checks in the other order: the engine byte is
\* judged before the magic
parse_header_engine_first(self) ==
    LET header == read_bytes(self, 6)
        engine == read_byte(seek_byte(header.self, 1, "Current"))
    IN  IF ~header.ok \/ ~engine.ok
        THEN [status |-> "Panic", self |-> self, found |-> <<>>]
        ELSE IF engine.val \notin {1, 3}
        THEN [status |-> "InvalidEngine", self |-> engine.self, found |-> <<engine.val>>]
        ELSE IF header.bytes # ARCHIVE_HEADER
        THEN [status |-> "InvalidHeader", self |-> header.self, found |-> header.bytes]
        ELSE [status |-> "Ok",
              self   |-> [engine.self EXCEPT !.engine_type =
                                                 IF engine.val = 1 THEN "Older" ELSE "VXAce"],
              found  |-> <<>>]

\* parse_header with the seek_byte(1) of line 231 lost: the separator is read
\* as the engine byte
parse_header_no_skip(self) ==
    LET header == read_bytes(self, 6)
        engine == read_byte(header.self)
    IN  IF ~header.ok
        THEN [status |-> "Panic", self |-> self, found |-> <<>>]
        ELSE IF header.bytes # ARCHIVE_HEADER
        THEN [status |-> "InvalidHeader", self |-> header.self, found |-> header.bytes]
        ELSE IF ~engine.ok
        THEN [status |-> "Panic", self |-> header.self, found |-> <<>>]
        ELSE IF engine.val = 1
        THEN [status |-> "Ok", self |-> [engine.self EXCEPT !.engine_type = "Older"],
              found |-> <<>>]
        ELSE IF engine.val = 3
        THEN [status |-> "Ok", self |-> [engine.self EXCEPT !.engine_type = "VXAce"],
              found |-> <<>>]
        ELSE [status |-> "InvalidEngine", self |-> engine.self, found |-> <<engine.val>>]

\* Decrypter::parse_header
parse_header(self) ==
    LET header == read_bytes(self, 6)
        engine == read_byte(seek_byte(header.self, 1, "Current"))
    IN  IF ~header.ok
        THEN [status |-> "Panic", self |-> self, found |-> <<>>]
        ELSE IF header.bytes # ARCHIVE_HEADER
        THEN [status |-> "InvalidHeader", self |-> header.self, found |-> header.bytes]
        ELSE IF ~engine.ok
        THEN [status |-> "Panic", self |-> header.self, found |-> <<>>]
        ELSE IF engine.val = 1
        THEN [status |-> "Ok", self |-> [engine.self EXCEPT !.engine_type = "Older"],
              found |-> <<>>]
        ELSE IF engine.val = 3
        THEN [status |-> "Ok", self |-> [engine.self EXCEPT !.engine_type = "VXAce"],
              found |-> <<>>]
        ELSE [status |-> "InvalidEngine", self |-> engine.self, found |-> <<engine.val>>]

\* reset without lines 301-302: the key of the call before stays
reset_keeps_key(self, d) ==
    [self EXCEPT !.data = d,
                 !.len = Len(d),
                 !.pos = 0,
                 !.engine_type = "Older"]

\* Decrypter::reset: everything but force
reset(self, d) ==
    [self EXCEPT !.data = d,
                 !.len = Len(d),
                 !.pos = 0,
                 !.engine_type = "Older",
                 !.key = OLDER_DEFAULT_KEY,
                 !.key_bytes = to_le_bytes(OLDER_DEFAULT_KEY)]

\* ArchiveEntry::default(), with the capacity of its filename_bytes
DefaultEntry ==
    [filename_bytes |-> <<>>, capacity |-> 0, size |-> 0, offset |-> 0,
     key |-> U32(0, 0)]

\* Vec::reserve_exact(n as usize) on the empty filename_bytes: the capacity
\* becomes n; a negative n is a usize above isize::MAX and panics
reserve_exact(e, n) ==
    [ok |-> n >= 0, entry |-> IF n >= 0 THEN [e EXCEPT !.capacity = n] ELSE e]

(***************************************************************************)
(* The target path of an entry and the file system (Unix path rules)       *)
(***************************************************************************)

IsCont(bytes, i) == i <= Len(bytes) /\ bytes[i] >= 128 /\ bytes[i] <= 191

IsSecond(bytes, i, lo, hi) == i <= Len(bytes) /\ bytes[i] >= lo /\ bytes[i] <= hi

REPLACEMENT_CHARACTER == 65533

\* String::from_utf8_lossy: the code points of the bytes, every maximal
\* invalid part replaced by U+FFFD
RECURSIVE from_utf8_lossy(_, _)
from_utf8_lossy(bytes, i) ==
    IF i > Len(bytes) THEN <<>>
    ELSE LET b == bytes[i]
             bad(n) == <<REPLACEMENT_CHARACTER>> \o from_utf8_lossy(bytes, i + n)
         IN  IF b < 128 THEN <<b>> \o from_utf8_lossy(bytes, i + 1)
             ELSE IF b >= 194 /\ b <= 223 THEN
                 IF IsCont(bytes, i + 1)
                 THEN <<(b - 192) * 64 + (bytes[i + 1] - 128)>>
                          \o from_utf8_lossy(bytes, i + 2)
                 ELSE bad(1)
             ELSE IF b >= 224 /\ b <= 239 THEN
                 IF ~IsSecond(bytes, i + 1,
                              IF b = 224 THEN 160 ELSE 128,
                              IF b = 237 THEN 159 ELSE 191) THEN bad(1)
                 ELSE IF ~IsCont(bytes, i + 2) THEN bad(2)
                 ELSE <<(b - 224) * 4096 + (bytes[i + 1] - 128) * 64
                          + (bytes[i + 2] - 128)>>
                          \o from_utf8_lossy(bytes, i + 3)
             ELSE IF b >= 240 /\ b <= 244 THEN
                 IF ~IsSecond(bytes, i + 1,
                              IF b = 240 THEN 144 ELSE 128,
                              IF b = 244 THEN 143 ELSE 191) THEN bad(1)
                 ELSE IF ~IsCont(bytes, i + 2) THEN bad(2)
                 ELSE IF ~IsCont(bytes, i + 3) THEN bad(3)
                 ELSE <<(b - 240) * 262144 + (bytes[i + 1] - 128) * 4096
                          + (bytes[i + 2] - 128) * 64 + (bytes[i + 3] - 128)>>
                          \o from_utf8_lossy(bytes, i + 4)
             ELSE bad(1)

SEPARATOR == 47

CUR_DIR == <<46>>

\* the components of a path string: the parts between '/', the empty ones and
\* "." dropped (".." is kept as a name: the model does not resolve it)
RECURSIVE Components(_, _, _)
Components(chars, i, cur) ==
    LET done == IF cur = <<>> \/ cur = CUR_DIR THEN <<>> ELSE <<cur>>
    IN  IF i > Len(chars) THEN done
        ELSE IF chars[i] = SEPARATOR THEN done \o Components(chars, i + 1, <<>>)
        ELSE Components(chars, i + 1, Append(cur, chars[i]))

\* output_path.as_ref().join(&*filename): a filename starting with '/' replaces
\* the output path; abs = FALSE is a path under the output path
Join(filename) ==
    [abs   |-> filename # <<>> /\ filename[1] = SEPARATOR,
     comps |-> Components(filename, 1, <<>>)]

\* the file_output_path of an entry (lines 336-337)
TargetPath(filename_bytes) == Join(from_utf8_lossy(filename_bytes, 1))

\* the path itself and every ancestor of it down to its root
Ancestors(p) == {[abs |-> p.abs, comps |-> SubSeq(p.comps, 1, n)] : n \in 0..Len(p.comps)}

\* a directory of the file system; "/" always is one
IsDir(s, p) == p \in s.dirs \/ (p.abs /\ p.comps = <<>>)

\* Path::exists
exists(s, p) == p \in DOMAIN s.files \/ IsDir(s, p)

\* Path::parent: the path without its last component.  The parent of the output
\* path itself lies outside the model and is taken to exist: nothing to create.
HasParent(p) == p.comps # <<>>

parent(p) == [abs |-> p.abs, comps |-> SubSeq(p.comps, 1, Len(p.comps) - 1)]

\* fs::create_dir_all: fails when a component of the path is a file, and
\* otherwise leaves the path and every ancestor a directory
create_dir_all(s, dir) ==
    IF \E a \in Ancestors(dir) : a \in DOMAIN s.files
    THEN [ok |-> FALSE, sink |-> s]
    ELSE [ok |-> TRUE, sink |-> [s EXCEPT !.dirs = @ \cup Ancestors(dir)]]

\* fs::write: fails on a directory (and on the output path itself, which join
\* leaves with a trailing '/'), or when the parent is not a directory;
\* otherwise the file holds exactly `contents`
write(s, p, contents) ==
    IF IsDir(s, p) \/ p.comps = <<>> \/ ~IsDir(s, parent(p))
    THEN [ok |-> FALSE, sink |-> s]
    ELSE [ok   |-> TRUE,
          sink |-> [s EXCEPT !.files =
                       [q \in DOMAIN @ \cup {p} |-> IF q = p THEN contents ELSE @[q]]]]


(***************************************************************************)
(* The archives handed to extract.  The repository has no encoder: these   *)
(* operators lay out the bytes that the decoder reads, from plain files    *)
(* [name, content, key], writing every keystream in closed form (the n-th  *)
(* key of the recurrence) and not as the decoder's loops do.               *)
(***************************************************************************)

\* the key after n applications of the recurrence
RECURSIVE KeyAfter(_, _)
KeyAfter(k, n) == IF n = 0 THEN k ELSE KeyAfter(NextKey(k), n - 1)

\* a 32-bit field as stored: the value XOR the key, little-endian
EncInt(v, k) == to_le_bytes(AsU32(XorI32(v, AsI32(k))))

\* content as stored: byte i (from 0) XOR byte (i mod 4) of the little-endian
\* bytes of the key after floor(i / 4) applications of the recurrence
Encrypt(k, plain) ==
    [i \in 1..Len(plain) |->
        Xor8(plain[i], to_le_bytes(KeyAfter(k, (i - 1) \div 4))[((i - 1) % 4) + 1])]

\* an Older filename as stored: byte i (from 0) XOR the low byte of the i-th key
EncOlderName(name, k) ==
    [i \in 1..Len(name) |-> Xor8(name[i], AsU8(KeyAfter(k, i - 1)))]

\* a VXAce filename as stored: byte i (from 0) XOR byte (i mod 4) of the table key
EncVXAceName(name, k) ==
    [i \in 1..Len(name) |-> Xor8(name[i], to_le_bytes(k)[((i - 1) % 4) + 1])]

Header(separator, engine) == ARCHIVE_HEADER \o <<separator, engine>>

\* the entries of an Older archive from cursor `at` and key k: the stored
\* bytes, and the descriptor of every entry
RECURSIVE OlderBody(_, _, _, _)
OlderBody(files, i, k, at) ==
    IF i > Len(files) THEN [bytes |-> <<>>, expect |-> <<>>]
    ELSE LET f    == files[i]
             L    == Len(f.name)
             ek   == KeyAfter(k, L + 2)
             off  == at + 4 + L + 4
             rest == OlderBody(files, i + 1, ek, off + Len(f.content))
         IN  [bytes  |-> EncInt(L, k) \o EncOlderName(f.name, KeyAfter(k, 1))
                           \o EncInt(Len(f.content), KeyAfter(k, L + 1))
                           \o Encrypt(ek, f.content) \o rest.bytes,
              expect |-> <<[filename_bytes |-> f.name, size |-> Len(f.content),
                            offset |-> off, key |-> ek, plain |-> f.content]>>
                           \o rest.expect]

BuildOlder(separator, files) ==
    LET body == OlderBody(files, 1, OLDER_DEFAULT_KEY, 8)
    IN  [kind   |-> "Older",
         bytes  |-> Header(separator, 1) \o body.bytes,
         expect |-> body.expect,
         seed   |-> U32(0, 0),
         table_end |-> 0]

RECURSIVE TableLen(_, _)
TableLen(files, i) ==
    IF i > Len(files) THEN 0 ELSE 16 + Len(files[i].name) + TableLen(files, i + 1)

\* the entry table and the content region of a VXAce archive: contents follow
\* the sentinel in table order, from offset `at`
RECURSIVE VXAceBody(_, _, _, _)
VXAceBody(files, i, k, at) ==
    IF i > Len(files) THEN [table |-> EncInt(0, k), blob |-> <<>>, expect |-> <<>>]
    ELSE LET f    == files[i]
             rest == VXAceBody(files, i + 1, k, at + Len(f.content))
         IN  [table  |-> EncInt(at, k) \o EncInt(Len(f.content), k)
                           \o EncInt(AsI32(f.key), k) \o EncInt(Len(f.name), k)
                           \o EncVXAceName(f.name, k) \o rest.table,
              blob   |-> Encrypt(f.key, f.content) \o rest.blob,
              expect |-> <<[filename_bytes |-> f.name, size |-> Len(f.content),
                            offset |-> at, key |-> f.key, plain |-> f.content]>>
                           \o rest.expect]

BuildVXAce(separator, seed, files) ==
    LET k    == wrapping_mul_add(seed, 9, 3)
        tl   == TableLen(files, 1) + 4
        body == VXAceBody(files, 1, k, 12 + tl)
    IN  [kind   |-> "VXAce",
         bytes  |-> Header(separator, 3) \o to_le_bytes(seed) \o body.table \o body.blob,
         expect |-> body.expect,
         seed   |-> seed,
         table_end |-> 12 + tl]

\* a buffer that is no well-formed archive
Raw(bytes) ==
    [kind |-> "Raw", bytes |-> bytes, expect |-> <<>>, seed |-> U32(0, 0),
     table_end |-> 0]

(***************************************************************************)
(* Bounds and inputs                                                       *)
(***************************************************************************)

\* the most entries of a generated archive
MaxEntries == 2

\* the most extract calls made on one Decrypter
MaxCalls == 2

\* plain files: "a" (5 bytes, two keystream blocks), "b" (empty), "d/a.bin"
\* (in a directory, a name longer than 4 bytes), and a second "a"
Files ==
    {[name |-> <<97>>, content |-> <<1, 2, 3, 4, 5>>, key |-> U32(4660, 65535)],
     [name |-> <<98>>, content |-> <<>>, key |-> U32(0, 0)],
     [name |-> <<100, 47, 97, 46, 98, 105, 110>>, content |-> <<200, 7, 0, 255>>,
      key |-> U32(65535, 65534)],
     [name |-> <<97>>, content |-> <<9>>, key |-> U32(43981, 1)]}

FileLists == UNION {[1..n -> Files] : n \in 0..MaxEntries}

\* the seeds of the VXAce archives: 0xFFFFFFFF (seed * 9 + 3 wraps), 0x00000101
WellFormed ==
    {BuildOlder(0, fl) : fl \in FileLists \ {<<>>}}
        \cup {BuildVXAce(0, U32(65535, 65535), fl) : fl \in FileLists}
        \cup {BuildVXAce(77, U32(0, 257), fl) : fl \in {l \in FileLists : Len(l) = 1}}
        \cup {BuildOlder(5, fl) : fl \in {l \in FileLists : Len(l) = 1}}

\* the fields of one Older entry as stored under the first keys of the table,
\* the name length and the size as given
OlderFields(name_len, name, size) ==
    EncInt(name_len, OLDER_DEFAULT_KEY)
        \o EncOlderName(name, KeyAfter(OLDER_DEFAULT_KEY, 1))
        \o EncInt(size, KeyAfter(OLDER_DEFAULT_KEY, Len(name) + 1))

\* the fields of one VXAce entry as stored under the table key of seed 1
\* (1 * 9 + 3 = 12), the offset and the size as given
VXAceFields(offset, size, name) ==
    EncInt(offset, U32(0, 12)) \o EncInt(size, U32(0, 12)) \o EncInt(7, U32(0, 12))
        \o EncInt(Len(name), U32(0, 12)) \o EncVXAceName(name, U32(0, 12))

\* a VXAce archive of one empty file
NoSentinel ==
    BuildVXAce(0, U32(0, 1), <<[name |-> <<98>>, content |-> <<>>, key |-> U32(0, 0)]>>).bytes

\* an Older archive of two files, "a" and "b"
TwoFiles ==
    BuildOlder(0, <<[name |-> <<97>>, content |-> <<1, 2, 3, 4, 5>>, key |-> U32(0, 0)],
                    [name |-> <<98>>, content |-> <<>>, key |-> U32(0, 0)]>>).bytes

Malformed ==
    {Raw(<<>>),
     Raw(<<82, 71, 83, 83, 65>>),
     Raw(<<82, 71, 83, 83, 65, 68>>),
     Raw(<<82, 71, 83, 83, 65, 68, 0>>),
     Raw(<<82, 71, 83, 83, 65, 66, 0, 1>>),
     Raw(<<82, 71, 83, 83, 65, 66, 7, 2>>),
     Raw(<<82, 71, 83, 83, 65, 66>>),
     Raw(<<0, 71, 83, 83, 65, 68, 0, 3, 1>>),
     Raw(<<114, 103, 115, 115, 97, 100, 0, 3, 1, 2>>),
     Raw(<<82, 71, 83, 83, 65, 68, 0, 2>>),
     Raw(<<82, 71, 83, 83, 65, 68, 3, 0, 9>>),
     Raw(<<82, 71, 83, 83, 65, 68, 1, 255>>),
     Raw([TwoFiles EXCEPT ![6] = 66]),
     Raw([TwoFiles EXCEPT ![8] = 2]),
     Raw(Header(0, 1)),
     Raw(Header(0, 3)),
     Raw(Header(0, 3) \o <<1, 0, 0, 0>>),
     Raw(Header(0, 1) \o OlderFields(1, <<97>>, -3) \o <<1, 2, 3>>),
     Raw(Header(0, 1) \o OlderFields(1, <<97>>, 100) \o <<1, 2, 3>>),
     Raw(Header(0, 1) \o OlderFields(-1, <<97>>, 0)),
     Raw(Header(0, 1) \o OlderFields(9, <<97>>, 0)),
     Raw(SubSeq(Header(0, 1) \o OlderFields(1, <<97>>, 0), 1, 15)),
     Raw(SubSeq(NoSentinel, 1, Len(NoSentinel) - 4)),
     Raw(SubSeq(NoSentinel, 1, 18)),
     Raw(SubSeq(NoSentinel, 1, 22)),
     Raw(SubSeq(NoSentinel, 1, 26)),
     Raw(SubSeq(NoSentinel, 1, 28)),
     Raw(Header(0, 3) \o <<1, 0, 0, 0>> \o VXAceFields(40, 2, <<97>>) \o EncInt(0, U32(0, 12))),
     Raw(Header(0, 3) \o <<1, 0, 0, 0>> \o VXAceFields(33, -1, <<97>>) \o EncInt(0, U32(0, 12)))}

Archives == WellFormed \cup Malformed

Root == [abs |-> FALSE, comps |-> <<>>]

Under(comps) == [abs |-> FALSE, comps |-> comps]

NoFiles == [q \in {} |-> <<>>]

\* the file system before the first call: nothing (not even the output
\* directory); a file "a"; a directory "a"; a file "d"
InitSinks ==
    {[files |-> NoFiles, dirs |-> {}],
     [files |-> [q \in {Under(<<<<97>>>>)} |-> <<42>>], dirs |-> {Root}],
     [files |-> NoFiles, dirs |-> {Root, Under(<<<<97>>>>)}],
     [files |-> [q \in {Under(<<<<100>>>>)} |-> <<>>], dirs |-> {Root}]}

(***************************************************************************)
(* The state machine: a caller that owns one Decrypter, sets force and     *)
(* calls extract; extract runs as a sequence of steps.                     *)
(***************************************************************************)

Self ==
    [data |-> data, pos |-> pos, len |-> len, force |-> force,
     engine_type |-> engine_type, key |-> key, key_bytes |-> key_bytes]

Store(s) ==
    /\ data' = s.data
    /\ pos' = s.pos
    /\ len' = s.len
    /\ force' = s.force
    /\ engine_type' = s.engine_type
    /\ key' = s.key
    /\ key_bytes' = s.key_bytes

decrypter == <<data, pos, len, force, engine_type, key, key_bytes>>

NoResult == [kind |-> "None", found |-> <<>>]

Outcome(kind) == [kind |-> kind, found |-> <<>>]

\* a panic unwinds out of extract: nothing else runs on this Decrypter
Panic == pc' = "done" /\ result' = Outcome("Panic")

Init ==
    /\ data = new.data
    /\ pos = new.pos
    /\ len = new.len
    /\ force = new.force
    /\ engine_type = new.engine_type
    /\ key = new.key
    /\ key_bytes = new.key_bytes
    /\ pc = "idle"
    /\ entry = DefaultEntry
    /\ entries = <<>>
    /\ idx = 1
    /\ sink \in InitSinks
    /\ result = NoResult
    /\ calls = 0
    /\ input = Raw(<<>>)
    /\ sink0 = sink
    /\ writes = <<>>
    /\ key0 = OLDER_DEFAULT_KEY

\* the caller sets force between two calls
SetForce(enabled) ==
    /\ pc = "idle"
    /\ Store(set_force(Self, enabled))
    /\ UNCHANGED <<pc, entry, entries, idx, sink, result, calls, input, sink0,
                   writes, key0>>

\* extract, line 330: the call starts with reset(data)
Extract(archive) ==
    /\ pc = "idle"
    /\ calls < MaxCalls
    /\ Store(reset(Self, archive.bytes))
    /\ pc' = "parse_header"
    /\ entry' = DefaultEntry
    /\ entries' = <<>>
    /\ idx' = 1
    /\ result' = NoResult
    /\ calls' = calls + 1
    /\ input' = archive
    /\ sink0' = sink
    /\ writes' = <<>>
    /\ key0' = OLDER_DEFAULT_KEY
    /\ UNCHANGED sink

\* line 331 with the `?` lost: the error is noted and the extraction goes on
ParseHeader_goes_on ==
    /\ pc = "parse_header"
    /\ LET r == parse_header(Self)
       IN  /\ Store(r.self)
           /\ IF r.status # "Panic"
              THEN pc' = "extract_entries"
                       /\ result' = IF r.status = "Ok" THEN result
                                     ELSE [kind |-> r.status, found |-> r.found]
              ELSE pc' = "done" /\ result' = [kind |-> r.status, found |-> r.found]
    /\ UNCHANGED <<entry, entries, idx, sink, calls, input, sink0, writes, key0>>

\* extract, line 331: parse_header()?
ParseHeader ==
    /\ pc = "parse_header"
    /\ LET r == parse_header(Self)
       IN  /\ Store(r.self)
           /\ IF r.status = "Ok"
              THEN pc' = "extract_entries" /\ UNCHANGED result
              ELSE pc' = "done" /\ result' = [kind |-> r.status, found |-> r.found]
    /\ UNCHANGED <<entry, entries, idx, sink, calls, input, sink0, writes, key0>>

\* extract_entries, lines 245-251: VXAce reads the raw seed and derives the
\* table key
vxace_seed(self) ==
    LET seed == read_int(self)
    IN  IF self.engine_type # "VXAce" THEN [ok |-> TRUE, self |-> self]
        ELSE IF ~seed.ok THEN [ok |-> FALSE, self |-> self]
        ELSE [ok   |-> TRUE,
              self |-> update_key(seed.self, wrapping_mul_add(AsU32(seed.val), 9, 3))]

ExtractEntriesBegin ==
    /\ pc = "extract_entries"
    /\ LET r == vxace_seed(Self)
       IN  /\ Store(r.self)
           /\ key0' = r.self.key
           /\ IF r.ok THEN pc' = "loop" /\ UNCHANGED result ELSE Panic
    /\ UNCHANGED <<entry, entries, idx, sink, calls, input, sink0, writes>>

\* the break of line 260 testing the field as stored, not as decrypted
vxace_offset_raw_zero(self) ==
    LET r == decrypt_int(self)
    IN  [ok    |-> r.ok,
         self  |-> r.self,
         entry |-> [DefaultEntry EXCEPT !.offset = r.val],
         stop  |-> r.ok /\ read_int(self).val = 0]

\* VXAce, lines 258-262: a new entry; its offset, and the break at offset 0
vxace_offset(self) ==
    LET r == decrypt_int(self)
    IN  [ok    |-> r.ok,
         self  |-> r.self,
         entry |-> [DefaultEntry EXCEPT !.offset = r.val],
         stop  |-> r.ok /\ r.val = 0]

VXAceOffset ==
    /\ pc = "loop"
    /\ engine_type = "VXAce"
    /\ LET r == vxace_offset(Self)
       IN  /\ Store(r.self)
           /\ IF ~r.ok THEN Panic /\ UNCHANGED entry
              ELSE /\ entry' = r.entry
                   /\ pc' = IF r.stop THEN "for_entries" ELSE "vxace_size"
                   /\ UNCHANGED result
    /\ key0' = key
    /\ UNCHANGED <<entries, idx, sink, calls, input, sink0, writes>>

\* VXAce, line 264
VXAceSize ==
    /\ pc = "vxace_size"
    /\ LET r == decrypt_int(Self)
       IN  /\ Store(r.self)
           /\ IF r.ok
              THEN pc' = "vxace_key" /\ entry' = [entry EXCEPT !.size = r.val]
                       /\ UNCHANGED result
              ELSE Panic /\ UNCHANGED entry
    /\ UNCHANGED <<entries, idx, sink, calls, input, sink0, writes, key0>>

\* VXAce, line 265
VXAceKey ==
    /\ pc = "vxace_key"
    /\ LET r == decrypt_int(Self)
       IN  /\ Store(r.self)
           /\ IF r.ok
              THEN pc' = "vxace_name_len" /\ entry' = [entry EXCEPT !.key = AsU32(r.val)]
                       /\ UNCHANGED result
              ELSE Panic /\ UNCHANGED entry
    /\ UNCHANGED <<entries, idx, sink, calls, input, sink0, writes, key0>>

\* VXAce, lines 267-269: filename_bytes.reserve_exact(decrypt_int() as usize)
VXAceNameLen ==
    /\ pc = "vxace_name_len"
    /\ LET r == decrypt_int(Self)
           e == reserve_exact(entry, r.val)
       IN  /\ Store(r.self)
           /\ IF r.ok /\ e.ok
              THEN pc' = "vxace_filename" /\ entry' = e.entry /\ UNCHANGED result
              ELSE Panic /\ UNCHANGED entry
    /\ UNCHANGED <<entries, idx, sink, calls, input, sink0, writes, key0>>

\* VXAce, lines 270 and 290: the filename, and the entry is pushed
VXAceFilename ==
    /\ pc = "vxace_filename"
    /\ LET r == decrypt_filename(Self, entry)
       IN  /\ Store(r.self)
           /\ entry' = r.entry
           /\ IF r.ok
              THEN pc' = "loop" /\ entries' = Append(entries, r.entry) /\ UNCHANGED result
              ELSE Panic /\ UNCHANGED entries
    /\ UNCHANGED <<idx, sink, calls, input, sink0, writes, key0>>

\* Older, lines 254 and 273-275: a new entry and its name length
OlderNameLen ==
    /\ pc = "loop"
    /\ engine_type = "Older"
    /\ key0' = key
    /\ LET r == decrypt_int(Self)
           e == reserve_exact(DefaultEntry, r.val)
       IN  /\ Store(r.self)
           /\ IF r.ok /\ e.ok
              THEN pc' = "older_filename" /\ entry' = e.entry /\ UNCHANGED result
              ELSE Panic /\ UNCHANGED entry
    /\ UNCHANGED <<entries, idx, sink, calls, input, sink0, writes>>

\* Older, line 276
OlderFilename ==
    /\ pc = "older_filename"
    /\ LET r == decrypt_filename(Self, entry)
       IN  /\ Store(r.self)
           /\ entry' = r.entry
           /\ IF r.ok THEN pc' = "older_size" /\ UNCHANGED result ELSE Panic
    /\ UNCHANGED <<entries, idx, sink, calls, input, sink0, writes, key0>>

\* Older, lines 278-290: the size, the descriptor's offset and key, the skip of
\* the content, and the end of the loop body: break at the buffer end, push
\* otherwise
older_size(self, e, es) ==
    LET r       == decrypt_int(self)
        sized   == [e EXCEPT !.size = r.val, !.offset = r.self.pos, !.key = r.self.key]
        skipped == seek_byte(r.self, sized.size, "Current")
        stop    == skipped.pos = skipped.len
    IN  [ok      |-> r.ok,
         read    |-> r.self,
         self    |-> skipped,
         entry   |-> sized,
         stop    |-> stop,
         entries |-> IF stop THEN es ELSE Append(es, sized)]

\* `size as usize` of a negative size is at least 2^64 - 2^31 and pos + it
\* overflows: a build with overflow checks panics there, a build without
\* wraps to pos + size
OlderSize ==
    /\ pc = "older_size"
    /\ LET r == older_size(Self, entry, entries)
       IN  \/ /\ ~r.ok
              /\ Store(r.read)
              /\ Panic
              /\ UNCHANGED <<entry, entries>>
           \/ /\ r.ok
              /\ Store(r.self)
              /\ entry' = r.entry
              /\ entries' = r.entries
              /\ pc' = IF r.stop THEN "for_entries" ELSE "loop"
              /\ UNCHANGED result
           \/ /\ r.ok
              /\ r.entry.size < 0
              /\ Store(r.read)
              /\ entry' = r.entry
              /\ Panic
              /\ UNCHANGED entries
    /\ UNCHANGED <<idx, sink, calls, input, sink0, writes, key0>>

\* the loop body with the test of line 339 lost: an existing target is
\* overwritten whatever force is
extract_entry_ignores_exists(self, s, e) ==
    LET file_output_path == TargetPath(e.filename_bytes)
        made      == IF HasParent(file_output_path)
                     THEN create_dir_all(s, parent(file_output_path))
                     ELSE [ok |-> TRUE, sink |-> s]
        decrypted == decrypt_entry(self, e)
        written   == write(made.sink, file_output_path, decrypted.out)
    IN  IF ~made.ok \/ ~decrypted.ok \/ ~written.ok
        THEN [status |-> "Panic", self |-> self, sink |-> s,
              path |-> file_output_path, out |-> <<>>]
        ELSE [status |-> "Written", self |-> decrypted.self, sink |-> written.sink,
              path |-> file_output_path, out |-> decrypted.out]

\* the loop body with the test of line 339 after the write of line 348: the
\* colliding entry is written, then FilesExist is returned
extract_entry_checks_after_write(self, s, e) ==
    LET file_output_path == TargetPath(e.filename_bytes)
        made      == IF HasParent(file_output_path)
                     THEN create_dir_all(s, parent(file_output_path))
                     ELSE [ok |-> TRUE, sink |-> s]
        decrypted == decrypt_entry(self, e)
        written   == write(made.sink, file_output_path, decrypted.out)
    IN  IF ~made.ok \/ ~decrypted.ok \/ ~written.ok
        THEN [status |-> "Panic", self |-> self, sink |-> s,
              path |-> file_output_path, out |-> <<>>]
        ELSE IF exists(s, file_output_path) /\ ~self.force
        THEN [status |-> "FilesExist", self |-> decrypted.self, sink |-> written.sink,
              path |-> file_output_path, out |-> <<>>]
        ELSE [status |-> "Written", self |-> decrypted.self, sink |-> written.sink,
              path |-> file_output_path, out |-> decrypted.out]

\* the loop body with `&& !self.force` lost: an existing target ends the
\* extraction whatever force is
extract_entry_ignores_force(self, s, e) ==
    LET file_output_path == TargetPath(e.filename_bytes)
        made      == IF HasParent(file_output_path)
                     THEN create_dir_all(s, parent(file_output_path))
                     ELSE [ok |-> TRUE, sink |-> s]
        decrypted == decrypt_entry(self, e)
        written   == write(made.sink, file_output_path, decrypted.out)
    IN  IF exists(s, file_output_path)
        THEN [status |-> "FilesExist", self |-> self, sink |-> s,
              path |-> file_output_path, out |-> <<>>]
        ELSE IF ~made.ok \/ ~decrypted.ok \/ ~written.ok
        THEN [status |-> "Panic", self |-> self, sink |-> s,
              path |-> file_output_path, out |-> <<>>]
        ELSE [status |-> "Written", self |-> decrypted.self, sink |-> written.sink,
              path |-> file_output_path, out |-> decrypted.out]

\* extract, lines 336-348: the body of the loop over the entries
extract_entry(self, s, e) ==
    LET file_output_path == TargetPath(e.filename_bytes)
        made      == IF HasParent(file_output_path)
                     THEN create_dir_all(s, parent(file_output_path))
                     ELSE [ok |-> TRUE, sink |-> s]
        decrypted == decrypt_entry(self, e)
        written   == write(made.sink, file_output_path, decrypted.out)
    IN  IF exists(s, file_output_path) /\ ~self.force
        THEN [status |-> "FilesExist", self |-> self, sink |-> s,
              path |-> file_output_path, out |-> <<>>]
        ELSE IF ~made.ok
        THEN [status |-> "Panic", self |-> self, sink |-> s,
              path |-> file_output_path, out |-> <<>>]
        ELSE IF ~decrypted.ok
        THEN [status |-> "Panic", self |-> decrypted.self, sink |-> made.sink,
              path |-> file_output_path, out |-> <<>>]
        ELSE IF ~written.ok
        THEN [status |-> "Panic", self |-> decrypted.self, sink |-> made.sink,
              path |-> file_output_path, out |-> decrypted.out]
        ELSE [status |-> "Written", self |-> decrypted.self, sink |-> written.sink,
              path |-> file_output_path, out |-> decrypted.out]

ExtractEntry ==
    /\ pc = "for_entries"
    /\ idx <= Len(entries)
    /\ LET r == extract_entry(Self, sink, entries[idx])
       IN  /\ Store(r.self)
           /\ sink' = r.sink
           /\ IF r.status = "Written"
              THEN /\ idx' = idx + 1
                   /\ writes' = Append(writes, [path |-> r.path, contents |-> r.out])
                   /\ UNCHANGED <<pc, result>>
              ELSE /\ pc' = "done"
                   /\ result' = Outcome(r.status)
                   /\ UNCHANGED <<idx, writes>>
    /\ UNCHANGED <<entry, entries, calls, input, sink0, key0>>

\* extract, line 351: Ok(ExtractOutcome::Extracted)
ExtractDone ==
    /\ pc = "for_entries"
    /\ idx > Len(entries)
    /\ pc' = "done"
    /\ result' = Outcome("Extracted")
    /\ UNCHANGED <<decrypter, entry, entries, idx, sink, calls, input, sink0,
                   writes, key0>>

\* extract has returned (not panicked): the caller has the Decrypter back
Return ==
    /\ pc = "done"
    /\ result.kind # "Panic"
    /\ pc' = "idle"
    /\ UNCHANGED <<decrypter, entry, entries, idx, sink, result, calls, input,
                   sink0, writes, key0>>

Next ==
    \/ \E enabled \in BOOLEAN : SetForce(enabled)
    \/ \E archive \in Archives : Extract(archive)
    \/ ParseHeader
    \/ ExtractEntriesBegin
    \/ VXAceOffset
    \/ VXAceSize
    \/ VXAceKey
    \/ VXAceNameLen
    \/ VXAceFilename
    \/ OlderNameLen
    \/ OlderFilename
    \/ OlderSize
    \/ ExtractEntry
    \/ ExtractDone
    \/ Return

Spec == Init /\ [][Next]_vars

\* a step of extract_entries (ExtractEntriesBegin, the VXAce and the Older
\* steps): each of them moves pc, and no other step does while the table is
\* decoded.  extract_entries is straight-line code and a loop, nothing in it
\* waits: a step that can be taken is taken.
TableNext ==
    /\ pc \in {"extract_entries", "loop", "vxace_size", "vxace_key", "vxace_name_len",
               "vxace_filename", "older_filename", "older_size"}
    /\ \E p \in {"loop", "vxace_size", "vxace_key", "vxace_name_len", "vxace_filename",
                  "older_filename", "older_size", "for_entries", "done"} :
           p # pc /\ pc' = p

FairSpec == Spec /\ WF_pc(TableNext)

(***************************************************************************)
(* The content round trip: a plaintext is encrypted under a key, laid in a *)
(* buffer at an offset, and decrypt_entry is applied to its descriptor.    *)
(***************************************************************************)

\* the longest plaintext of the round trip
MaxPlain == 9

PlainBytes == {0, 165}

Plains == UNION {[1..n -> PlainBytes] : n \in 0..MaxPlain}

\* 0, 0xDEADCAFE, 0xFFFFFFFF, 0x12345678
RoundTripKeys == {U32(0, 0), OLDER_DEFAULT_KEY, U32(65535, 65535), U32(4660, 22136)}

\* bytes before and after the entry's content
Padding == {<<>>, <<17, 34, 51>>}

RoundTripInit ==
    /\ data = new.data
    /\ pos = new.pos
    /\ len = new.len
    /\ force = new.force
    /\ engine_type = new.engine_type
    /\ key = new.key
    /\ key_bytes = new.key_bytes
    /\ pc = "plain"
    /\ entry = DefaultEntry
    /\ entries = <<>>
    /\ idx = 1
    /\ sink = [files |-> NoFiles, dirs |-> {}]
    /\ result = NoResult
    /\ calls = 0
    /\ input = Raw(<<>>)
    /\ sink0 = sink
    /\ writes = <<>>
    /\ key0 = OLDER_DEFAULT_KEY

\* a plaintext is encrypted and handed over with its descriptor
RoundTripEncrypt(k, plain, pad) ==
    /\ pc = "plain"
    /\ LET bytes == pad \o Encrypt(k, plain) \o pad
           e     == [DefaultEntry EXCEPT !.key = k, !.offset = Len(pad), !.size = Len(plain)]
       IN  /\ Store(reset(Self, bytes))
           /\ entries' = <<e>>
           /\ input' = [Raw(bytes) EXCEPT
                           !.expect = <<[filename_bytes |-> <<>>, size |-> Len(plain),
                                         offset |-> Len(pad), key |-> k, plain |-> plain]>>]
    /\ pc' = "cipher"
    /\ UNCHANGED <<entry, idx, sink, result, calls, sink0, writes, key0>>

\* decrypt_entry on the descriptor
RoundTripDecrypt ==
    /\ pc = "cipher"
    /\ LET r == decrypt_entry(Self, entries[1])
       IN  /\ Store(r.self)
           /\ writes' = <<[path |-> Root, contents |-> r.out]>>
           /\ result' = Outcome(IF r.ok THEN "Extracted" ELSE "Panic")
    /\ pc' = "decrypted"
    /\ UNCHANGED <<entry, entries, idx, sink, calls, input, sink0, key0>>

RoundTripNext ==
    \/ \E k \in RoundTripKeys, plain \in Plains, pad \in Padding :
           RoundTripEncrypt(k, plain, pad)
    \/ RoundTripDecrypt

RoundTripSpec == RoundTripInit /\ [][RoundTripNext]_vars

(***************************************************************************)
(* Concurrent content decryption: the descriptors of one buffer are        *)
(* decrypted by workers in whatever order they get to them.  decrypt_entry *)
(* takes the Decrypter by `&mut self`: a call has the Decrypter to itself  *)
(* from its seek to its read, so the calls of the workers interleave as    *)
(* whole calls, in any order.                                              *)
(***************************************************************************)

\* the most descriptors decrypted concurrently
MaxConcurrent == 3

ConcurrentBuffer == <<16, 32, 48, 64, 80, 96, 112>>

\* descriptors over the buffer: ranges that overlap, that coincide, that are
\* empty, that end at the buffer end
ConcurrentRanges ==
    {[offset |-> 0, size |-> 5, key |-> U32(4660, 22136)],
     [offset |-> 2, size |-> 5, key |-> U32(4660, 22136)],
     [offset |-> 2, size |-> 5, key |-> U32(65535, 65535)],
     [offset |-> 3, size |-> 0, key |-> U32(0, 0)],
     [offset |-> 0, size |-> 7, key |-> OLDER_DEFAULT_KEY],
     [offset |-> 6, size |-> 1, key |-> U32(0, 1)]}

\* the i-th descriptor of a list is named by the letter after "`"
ConcurrentEntries(ranges) ==
    [i \in 1..Len(ranges) |->
        [DefaultEntry EXCEPT !.filename_bytes = <<96 + i>>, !.capacity = 1,
                             !.offset = ranges[i].offset, !.size = ranges[i].size,
                             !.key = ranges[i].key]]

\* the entries decrypted one after another in archive order, as the loop of
\* extract does (lines 336-347)
RECURSIVE Sequential(_, _, _)
Sequential(self, es, i) ==
    IF i > Len(es) THEN <<>>
    ELSE LET r == decrypt_entry(self, es[i])
         IN  <<[filename_bytes |-> es[i].filename_bytes, size |-> es[i].size,
                offset |-> es[i].offset, key |-> es[i].key, plain |-> r.out]>>
                 \o Sequential(r.self, es, i + 1)

\* the Decrypter as table decoding can leave it (either variant, the cursor
\* anywhere in the buffer), and a list of descriptors
ConcurrentInit ==
    /\ data = ConcurrentBuffer
    /\ len = Len(ConcurrentBuffer)
    /\ pos \in {0, 3, Len(ConcurrentBuffer)}
    /\ force = FALSE
    /\ engine_type \in {"Older", "VXAce"}
    /\ key = OLDER_DEFAULT_KEY
    /\ key_bytes = to_le_bytes(OLDER_DEFAULT_KEY)
    /\ pc = "workers"
    /\ entry = DefaultEntry
    /\ \E n \in 2..MaxConcurrent : \E ranges \in [1..n -> ConcurrentRanges] :
           entries = ConcurrentEntries(ranges)
    /\ idx = 1
    /\ sink = [files |-> NoFiles, dirs |-> {}]
    /\ result = NoResult
    /\ calls = 0
    /\ input = [Raw(ConcurrentBuffer) EXCEPT !.expect = Sequential(Self, entries, 1)]
    /\ sink0 = sink
    /\ writes = <<>>
    /\ key0 = OLDER_DEFAULT_KEY

\* a worker takes the Decrypter and decrypts an entry nobody has decrypted yet
ConcurrentDecrypt(i) ==
    /\ pc = "workers"
    /\ \A j \in 1..Len(writes) : writes[j].path # TargetPath(entries[i].filename_bytes)
    /\ LET r == decrypt_entry(Self, entries[i])
       IN  /\ Store(r.self)
           /\ writes' = Append(writes, [path |-> TargetPath(entries[i].filename_bytes),
                                        contents |-> r.out])
           /\ IF r.ok THEN UNCHANGED <<pc, result>> ELSE Panic
    /\ UNCHANGED <<entry, entries, idx, sink, calls, input, sink0, key0>>

\* every entry has been decrypted: the workers are joined
ConcurrentJoin ==
    /\ pc = "workers"
    /\ Len(writes) = Len(entries)
    /\ pc' = "done"
    /\ result' = Outcome("Extracted")
    /\ UNCHANGED <<decrypter, entry, entries, idx, sink, calls, input, sink0,
                   writes, key0>>

ConcurrentNext ==
    \/ \E i \in 1..Len(entries) : ConcurrentDecrypt(i)
    \/ ConcurrentJoin

ConcurrentSpec == ConcurrentInit /\ [][ConcurrentNext]_vars

(***************************************************************************)
(* Properties                                                              *)
(***************************************************************************)

\* a descriptor as the spec names it: filename, size, offset, key
Desc(e) ==
    [filename_bytes |-> e.filename_bytes, size |-> e.size, offset |-> e.offset,
     key |-> e.key]

Descs(es) == [i \in 1..Len(es) |-> Desc(es[i])]

\* the i32 stored raw in data at cursor p
RawInt(p) == from_le_bytes(SubSeq(data, p + 1, p + 4))

TablePcs ==
    {"loop", "vxace_size", "vxace_key", "vxace_name_len", "vxace_filename",
     "older_filename", "older_size"}

\* C1: decoding the table of a well-formed Older archive of N >= 1 entries
\* ends with the cursor at the buffer length and returns the descriptors of
\* all N entries, in archive order (the last entry included).
C1_OlderRecordsEveryEntry ==
    (pc = "for_entries" /\ input.kind = "Older")
        => (pos = len /\ Descs(entries) = Descs(input.expect))

\* C2: decoding the table of a VXAce archive stops at the sentinel (the first
\* offset field that decrypts to 0): the cursor never passes the sentinel's 4
\* bytes, no descriptor is recorded for it, and the list returned is exactly
\* the entries before it, in archive order.
C2_VXAceStopsAtSentinel ==
    input.kind = "VXAce" =>
        /\ pc \in TablePcs => (pos <= input.table_end - 4 /\ Len(entries) <= Len(input.expect))
        /\ pc = "for_entries" /\ idx = 1 =>
               (pos = input.table_end /\ Descs(entries) = Descs(input.expect))
        /\ result.kind = "Panic" => pc = "done" /\ Descs(entries) = Descs(input.expect)

\* a one-entry VXAce table has been decoded: one descriptor, cursor right after
\* the sentinel
C2_Witness ==
    /\ input.kind = "VXAce"
    /\ pc = "for_entries"
    /\ idx = 1
    /\ Len(input.expect) = 1
    /\ Len(entries) = 1
    /\ pos = input.table_end

\* C3: the Older key trace.  The table starts with key 0xDEADCAFE; the name
\* length is decrypted with the key at the start of the entry (key0) and the
\* key advances once; filename byte i is XORed with the low byte of the key
\* after i advances; the size is decrypted with the key after L + 1 advances;
\* the descriptor's offset is the cursor right after the size field and its
\* key is the key after L + 2 advances, which is the key that decrypts the
\* next entry's name length.
C3_OlderKeyTrace ==
    engine_type = "Older" =>
        /\ pc = "loop" /\ pos = 8 => key = OLDER_DEFAULT_KEY
        /\ pc = "older_filename" =>
               /\ key0 = (IF entries = <<>> THEN OLDER_DEFAULT_KEY
                          ELSE entries[Len(entries)].key)
               /\ entry.capacity = XorI32(RawInt(pos - 4), AsI32(key0))
               /\ key = KeyAfter(key0, 1)
        /\ pc = "older_size" =>
               LET L == entry.capacity
               IN  /\ Len(entry.filename_bytes) = L
                   /\ \A i \in 1..L :
                          entry.filename_bytes[i]
                              = Xor8(data[pos - L + i], AsU8(KeyAfter(key0, i)))
                   /\ key = KeyAfter(key0, L + 1)
                   /\ input.kind = "Older" =>
                          entry.filename_bytes
                              = input.expect[Len(entries) + 1].filename_bytes
        /\ pc \in {"loop", "for_entries"} /\ entry # DefaultEntry /\ idx = 1 =>
               LET L == entry.capacity
               IN  /\ entry.size = XorI32(RawInt(entry.offset - 4), AsI32(KeyAfter(key0, L + 1)))
                   /\ pos = entry.offset + entry.size
                   /\ entry.key = KeyAfter(key0, L + 2)
                   /\ key = entry.key
                   /\ key_bytes = to_le_bytes(key)
                   /\ input.kind = "Older" =>
                          LET n == IF pc = "loop" THEN Len(entries) ELSE Len(entries) + 1
                          IN  Desc(entry) = Desc(input.expect[n])

\* the second entry of an Older archive, with the 7-byte name, has had its size
\* decrypted: its key is 9 advances after the first descriptor's key
C3_Witness ==
    /\ input.kind = "Older"
    /\ pc = "for_entries"
    /\ idx = 1
    /\ Len(entries) = 1
    /\ entry.capacity = 7
    /\ entry.key = KeyAfter(entries[1].key, 9)
    /\ entry.key # entries[1].key

\* the seed of a VXAce archive: the 4 raw bytes at 8..12
RawSeed == U32(data[11] + 256 * data[12], data[9] + 256 * data[10])

\* C4: while and after a VXAce table is decoded the key stays seed * 9 + 3
\* (mod 2^32), the seed read raw from bytes 8..12, and the key bytes are its
\* little-endian bytes; the four header ints of every entry are the raw
\* fields XOR that one key.
C4_VXAceKeyFixed ==
    engine_type = "VXAce" /\ (pc \in TablePcs \/ pc = "for_entries") =>
        /\ key = wrapping_mul_add(RawSeed, 9, 3)
        /\ key_bytes = to_le_bytes(key)
        /\ input.kind = "VXAce" => RawSeed = input.seed
        /\ input.seed = U32(65535, 65535) /\ input.kind = "VXAce" => key = U32(65535, 65530)
        /\ pc = "vxace_filename" =>
               /\ entry.offset = XorI32(RawInt(pos - 16), AsI32(key))
               /\ entry.size = XorI32(RawInt(pos - 12), AsI32(key))
               /\ entry.key = AsU32(XorI32(RawInt(pos - 8), AsI32(key)))
               /\ entry.capacity = XorI32(RawInt(pos - 4), AsI32(key))

\* the four ints of the second entry of a VXAce
\* table with seed 0xFFFFFFFF have been decrypted with key 0xFFFFFFFA
C4_Witness ==
    /\ engine_type = "VXAce"
    /\ pc = "vxace_filename"
    /\ Len(entries) = 1
    /\ input.seed = U32(65535, 65535)
    /\ key = U32(65535, 65530)

\* C5: the content round trip.  A plaintext of length n encrypted under key k
\* (byte i XOR byte i mod 4 of the little-endian key after floor(i / 4)
\* advances) and decrypted by decrypt_entry from the descriptor
\* {key: k, offset, size: n} comes back unchanged, n bytes long; the key first
\* advances before byte 4.
C5_ContentRoundTrip ==
    pc = "decrypted" =>
        LET want == input.expect[1]
            out  == writes[1].contents
            at   == want.offset
        IN  /\ result.kind = "Extracted"
            /\ out = want.plain
            /\ Len(out) = want.size
            /\ \A i \in 1..Len(out) :
                   out[i] = Xor8(data[at + i],
                                 to_le_bytes(IF i <= 4 THEN want.key
                                             ELSE IF i <= 8 THEN NextKey(want.key)
                                             ELSE NextKey(NextKey(want.key)))[((i - 1) % 4) + 1])

\* a 5-byte plaintext under 0xFFFFFFFF went round: byte 4 was decrypted with
\* the advanced key 0xFFFFFFFC, bytes 0..3 with 0xFFFFFFFF
C5_Witness ==
    /\ pc = "decrypted"
    /\ input.expect[1].key = U32(65535, 65535)
    /\ input.expect[1].plain = <<165, 0, 0, 165, 165>>
    /\ input.expect[1].offset = 3
    /\ writes[1].contents = <<165, 0, 0, 165, 165>>
    /\ data[8] = Xor8(165, 252)
    /\ data[7] = Xor8(165, 255)

\* the first 6 bytes of the buffer of the current call
Magic == SubSeq(data, 1, 6)

\* C6: a buffer whose first 6 bytes are not "RGSSAD" makes extract fail with
\* InvalidHeader carrying exactly those 6 bytes, whatever bytes 6 and 7 are
\* (never InvalidEngine), and nothing of extract runs after the header.
C6_InvalidHeader ==
    (calls > 0 /\ pc # "parse_header" /\ Len(data) >= 6 /\ Magic # ARCHIVE_HEADER)
        => /\ pc \in {"done", "idle"}
           /\ result = [kind |-> "InvalidHeader", found |-> Magic]

\* "RGSSAB" with separator 7 and engine byte 2 was rejected for its magic
C6_Witness ==
    /\ pc = "done"
    /\ data = <<82, 71, 83, 83, 65, 66, 7, 2>>
    /\ result = [kind |-> "InvalidHeader", found |-> <<82, 71, 83, 83, 65, 66>>]

ValidHeader == Len(data) >= 8 /\ Magic = ARCHIVE_HEADER

\* C7: with a valid magic, engine byte 1 selects Older, 3 selects VXAce and any
\* other value v fails with InvalidEngine{found: v}, whatever the separator;
\* a successful parse_header only moves the cursor to 8 and sets the variant
\* (key, key bytes, buffer, force, entries and the file system are as reset
\* left them), and the variant does not change until the call has returned and
\* the next one starts.
C7_VariantDetection ==
    [][/\ (pc = "parse_header" /\ ValidHeader) =>
             /\ data[8] = 1 => (pc' = "extract_entries" /\ engine_type' = "Older")
             /\ data[8] = 3 => (pc' = "extract_entries" /\ engine_type' = "VXAce")
             /\ data[8] \notin {1, 3} =>
                    /\ pc' = "done"
                    /\ result' = [kind |-> "InvalidEngine", found |-> <<data[8]>>]
             /\ pc' = "extract_entries" =>
                    /\ pos' = 8
                    /\ result' = NoResult
                    /\ key' = OLDER_DEFAULT_KEY
                    /\ key_bytes' = to_le_bytes(OLDER_DEFAULT_KEY)
                    /\ UNCHANGED <<data, len, force, entry, entries, idx, sink>>
       /\ pc \notin {"idle", "parse_header"} => engine_type' = engine_type]_vars

\* a header with separator 77 and engine byte 3 was parsed: VXAce, cursor 8,
\* key untouched
C7_Witness ==
    /\ pc = "extract_entries"
    /\ data[7] = 77
    /\ data[8] = 3
    /\ engine_type = "VXAce"
    /\ pos = 8
    /\ key = OLDER_DEFAULT_KEY

\* the target path of the i-th decoded entry
Target(i) == TargetPath(entries[i].filename_bytes)

\* the file system after the writes ws on s, each write creating the
\* directories above its path
RECURSIVE Written(_, _, _)
Written(s, ws, i) ==
    IF i > Len(ws) THEN s
    ELSE LET w == ws[i]
         IN  Written([files |-> [q \in DOMAIN s.files \cup {w.path} |->
                                    IF q = w.path THEN w.contents ELSE s.files[q]],
                      dirs  |-> s.dirs \cup (Ancestors(w.path) \ {w.path})],
                     ws, i + 1)

\* C8: with force disabled the entries are taken in archive order, none
\* skipped, and at the first entry whose target exists extract returns
\* FilesExist at once: that entry is neither decrypted (the cursor stays) nor
\* written, the file system is left as it is, and the loop is over for the
\* later entries.
C8_AbortOnFirstCollision ==
    [][/\ (pc = "for_entries" /\ idx <= Len(entries) /\ ~force /\ exists(sink, Target(idx)))
             => /\ pc' = "done"
                /\ result' = Outcome("FilesExist")
                /\ UNCHANGED <<sink, writes, idx, entries, decrypter>>
       /\ (pc' = "for_entries" \/ result'.kind = "FilesExist")
             => /\ Len(writes') = idx' - 1
                /\ \A j \in 1..(idx' - 1) : writes'[j].path = TargetPath(entries'[j].filename_bytes)
       /\ (pc = "done" /\ result.kind = "FilesExist")
             => (pc' = "idle" /\ UNCHANGED <<sink, writes, idx, entries, decrypter>>)]_vars

\* a two-entry archive whose first target "a" exists: FilesExist, nothing
\* written, the file "a" as it was
C8_Witness ==
    /\ result.kind = "FilesExist"
    /\ pc = "done"
    /\ ~force
    /\ Len(entries) = 2
    /\ idx = 1
    /\ writes = <<>>
    /\ Target(1) = Under(<<<<97>>>>)
    /\ Target(2) = Under(<<<<98>>>>)
    /\ Under(<<<<97>>>>) \in DOMAIN sink.files
    /\ sink.files[Under(<<<<97>>>>)] = <<42>>
    /\ Under(<<<<98>>>>) \notin DOMAIN sink.files

\* C9 as claimed: whenever extract returns FilesExist the file system is as it
\* was before the call (stated for a colliding target that was there before
\* the call, so that no repeated name inside the archive is involved).
C9_AllOrNothing ==
    (result.kind = "FilesExist" /\ pc = "done" /\ exists(sink0, Target(idx)))
        => sink = sink0

\* C9 as the code has it: whenever extract returns FilesExist, the colliding
\* entry and the later ones have committed nothing, and the file system
\* differs from the one before the call by exactly the entries before the
\* colliding one (each written with its decrypted content, its directories
\* created); it is unchanged when the colliding entry is the first.
C9_CommitsEntriesBeforeCollision ==
    result.kind = "FilesExist" /\ pc = "done" =>
        /\ idx <= Len(entries)
        /\ exists(sink, Target(idx))
        /\ Len(writes) = idx - 1
        /\ \A j \in 1..(idx - 1) :
               /\ writes[j].path = Target(j)
               /\ input.kind # "Raw" => writes[j].contents = input.expect[j].plain
        /\ sink = Written(sink0, writes, 1)
        /\ idx = 1 => sink = sink0

\* entries "b" then "a" with a file "a" on the sink: FilesExist at the second
\* entry, after "b" was written
C9_Witness ==
    /\ result.kind = "FilesExist"
    /\ pc = "done"
    /\ idx = 2
    /\ Target(1) = Under(<<<<98>>>>)
    /\ Target(2) = Under(<<<<97>>>>)
    /\ Under(<<<<98>>>>) \in DOMAIN sink.files
    /\ Under(<<<<98>>>>) \notin DOMAIN sink0.files
    /\ Under(<<<<97>>>>) \in DOMAIN sink.files
    /\ sink.files[Under(<<<<97>>>>)] = <<42>>

\* the contents expected in the targets of the first n entries of a
\* well-formed archive
ExpectedWrites(n) ==
    [j \in 1..n |-> [path |-> Target(j), contents |-> input.expect[j].plain]]

\* C10 as claimed: with force, extract on a well-formed archive returns
\* Extracted, every decoded descriptor written once and in order, whatever
\* the sink holds.
C10_ForcedAlwaysExtracts ==
    (pc = "done" /\ force /\ input.kind # "Raw")
        => (result.kind = "Extracted" /\ writes = ExpectedWrites(Len(entries)))

\* a sink operation on the target p fails: p is a directory or the output
\* path itself, or a component above it is a file
SinkRefuses(s, p) ==
    \/ IsDir(s, p)
    \/ p.comps = <<>>
    \/ \E a \in Ancestors(p) \ {p} : a \in DOMAIN s.files

\* the last write to path p
LastWrite(p) ==
    writes[CHOOSE j \in 1..Len(writes) :
               writes[j].path = p /\ \A l \in (j + 1)..Len(writes) : writes[l].path # p]

\* C10 as the code has it: with force, extract on a well-formed archive never
\* returns FilesExist; it writes the decoded descriptors in archive order,
\* each once, each target receiving the decrypted bytes of its entry, and
\* returns Extracted after the last (the last write to a path is what the
\* path holds) - unless the sink refuses an entry (its target is a directory,
\* or a component above it is a file), where the call panics at that entry,
\* the entries before it written.
C10_Forced ==
    (pc \in {"for_entries", "done"} /\ force /\ input.kind # "Raw") =>
        /\ result.kind # "FilesExist"
        /\ writes = ExpectedWrites(idx - 1)
        /\ sink = Written(sink0, writes, 1)
        /\ pc = "done" =>
               \/ /\ result.kind = "Extracted"
                  /\ idx = Len(entries) + 1
                  /\ \A j \in 1..Len(entries) :
                         sink.files[Target(j)] = LastWrite(Target(j)).contents
               \/ /\ result.kind = "Panic"
                  /\ idx <= Len(entries)
                  /\ SinkRefuses(sink, Target(idx))

\* forced extraction of two entries both named "a" over an existing file "a":
\* Extracted, two writes, and "a" holds the second entry's bytes
C10_Witness ==
    /\ pc = "done"
    /\ force
    /\ result.kind = "Extracted"
    /\ Len(writes) = 2
    /\ writes[1] = [path |-> Under(<<<<97>>>>), contents |-> <<1, 2, 3, 4, 5>>]
    /\ writes[2] = [path |-> Under(<<<<97>>>>), contents |-> <<9>>]
    /\ Under(<<<<97>>>>) \in DOMAIN sink0.files
    /\ sink0.files[Under(<<<<97>>>>)] = <<42>>
    /\ Under(<<<<97>>>>) \in DOMAIN sink.files
    /\ sink.files[Under(<<<<97>>>>)] = <<9>>

\* C11: whenever extract fails with InvalidHeader or InvalidEngine, no byte of
\* the entry table has been read (the cursor is at 6 or at 8, the key is the
\* one reset left and no descriptor exists) and the sink is as it was before
\* the call (no directory created, no file written), whatever force is.
C11_NoOutputOnHeaderFailure ==
    result.kind \in {"InvalidHeader", "InvalidEngine"} =>
        /\ pos = (IF result.kind = "InvalidHeader" THEN 6 ELSE 8)
        /\ key = OLDER_DEFAULT_KEY
        /\ key_bytes = to_le_bytes(OLDER_DEFAULT_KEY)
        /\ entries = <<>>
        /\ writes = <<>>
        /\ sink = sink0

\* InvalidEngine with force set, on a sink that holds a file, in the second
\* call, the first having written files
C11_Witness ==
    /\ result.kind = "InvalidEngine"
    /\ pc = "done"
    /\ force
    /\ calls = 2
    /\ Len(data) > 8
    /\ DOMAIN sink0.files # {}

\* C12: whatever the order in which the workers get to the entries, also
\* entries whose byte ranges overlap, no decryption fails and every entry's
\* plaintext is the one that decrypting the entries one after another in
\* archive order gives; at the join every entry has its plaintext.
C12_ConcurrentEqualsSequential ==
    /\ result.kind # "Panic"
    /\ \A j \in 1..Len(writes) :
           \E i \in 1..Len(entries) :
               /\ writes[j].path = Target(i)
               /\ writes[j].contents = input.expect[i].plain
    /\ pc = "done" =>
           \A i \in 1..Len(entries) : \E j \in 1..Len(writes) : writes[j].path = Target(i)

\* three entries with overlapping ranges, decrypted last to first
C12_Witness ==
    /\ pc = "done"
    /\ Len(entries) = 3
    /\ Len(writes) = 3
    /\ writes[1].path = Target(3)
    /\ writes[2].path = Target(2)
    /\ writes[3].path = Target(1)
    /\ entries[1].offset = 0 /\ entries[1].size = 5
    /\ entries[2].offset = 2 /\ entries[2].size = 5
    /\ entries[3].offset = 0 /\ entries[3].size = 7
    /\ writes[1].contents # writes[3].contents

\* C13: whenever entry-table decoding returns a list, every descriptor of the
\* list has size >= 0 and offset + size <= length(buffer) (an offset that is
\* negative as an i32 is a usize above the buffer length), for both variants.
C13_DescriptorRange ==
    pc = "for_entries" =>
        \A i \in 1..Len(entries) :
            /\ entries[i].size >= 0
            /\ entries[i].offset >= 0
            /\ entries[i].offset + entries[i].size <= len

\* C14: with force false, extract on a well-formed archive none of whose
\* targets exists on the sink when extract is called (and none of which the
\* sink refuses) returns Extracted, also when two entries decode to the same
\* filename.
C14_FilesExistOnlyForExistingFiles ==
    (/\ pc = "done"
     /\ ~force
     /\ input.kind # "Raw"
     /\ \A i \in 1..Len(entries) :
            ~exists(sink0, Target(i)) /\ ~SinkRefuses(sink0, Target(i)))
        => result.kind = "Extracted"

\* the last entry pushed, and the bytes of its name as the buffer stores them:
\* in a VXAce table the cursor is right after them when the entry is pushed
LastEntry == entries[Len(entries)]

RawName == SubSeq(data, pos - Len(LastEntry.filename_bytes) + 1, pos)

VXAceNameRead == pc = "loop" /\ engine_type = "VXAce" /\ entries # <<>>

\* C15 as claimed: a VXAce filename is its stored bytes XORed with the
\* keystream of the table-wide key that advances by key * 7 + 3 after every
\* 4 bytes.
C15_FilenameKeystreamAdvances ==
    VXAceNameRead =>
        LastEntry.filename_bytes = decrypt_content(RawName, 1, key, 0)

\* C15 as the code has it: byte i of a VXAce filename is the stored byte XORed
\* with byte (i mod 4) of the little-endian bytes of the table-wide key,
\* starting at byte 0 for every filename; the key never advances, bytes 4..7
\* are XORed with the same four bytes as bytes 0..3, for every length; a
\* generated archive gives back the names it was built from.
C15_FilenameKeystreamCycles ==
    VXAceNameRead =>
        /\ key = key0
        /\ key_bytes = to_le_bytes(key0)
        /\ Len(RawName) = LastEntry.capacity
        /\ LastEntry.filename_bytes =
               [i \in 1..Len(RawName) |->
                   Xor8(RawName[i], to_le_bytes(key0)[((i - 1) % 4) + 1])]
        /\ input.kind = "VXAce" =>
               LastEntry.filename_bytes = input.expect[Len(entries)].filename_bytes

\* the 7-byte name "d/a.bin" under the key 0xFFFFFFFA, whose successor has
\* other bytes
C15_Witness ==
    /\ VXAceNameRead
    /\ LastEntry.filename_bytes = <<100, 47, 97, 46, 98, 105, 110>>
    /\ key = U32(65535, 65530)
    /\ to_le_bytes(NextKey(key)) # to_le_bytes(key)
    /\ RawName[5] = Xor8(98, 250)

\* the step of extract that decrypts and writes the entry at idx
DecryptsEntry == pc = "for_entries" /\ Len(writes') = Len(writes) + 1

\* the bytes of the buffer in [offset, offset + size) of a descriptor
ContentBytes(e) == SubSeq(data, e.offset + 1, e.offset + e.size)

\* C16 as claimed: decrypting an entry returns a value that depends only on
\* the descriptor's key and the buffer bytes in [offset, offset + size), and
\* leaves the table key, its bytes, the variant, the buffer and the read
\* cursor unchanged.
C16_DecryptEntryPure ==
    [][DecryptsEntry =>
          /\ writes'[idx].contents = decrypt_content(ContentBytes(entries[idx]), 1,
                                                     entries[idx].key, 0)
          /\ UNCHANGED <<key, key_bytes, engine_type, data, len, pos>>]_vars

\* C16 as the code has it: the value depends only on the descriptor's key and
\* the buffer bytes in [offset, offset + size) - not on the cursor, the table
\* key or the entries decrypted before - and the call leaves the table key,
\* its bytes, the variant, the buffer and force unchanged; the read cursor it
\* moves, to offset + size of the entry.
C16_DecryptEntryMovesCursorOnly ==
    [][DecryptsEntry =>
          /\ writes'[idx].contents = decrypt_content(ContentBytes(entries[idx]), 1,
                                                     entries[idx].key, 0)
          /\ input.kind # "Raw" => writes'[idx].contents = input.expect[idx].plain
          /\ UNCHANGED <<key, key_bytes, engine_type, data, len, force>>
          /\ pos' = entries[idx].offset + entries[idx].size]_vars

\* two entries of a VXAce archive decrypted, the second one "a" of 5 bytes:
\* the cursor, at the end of the table before, is at the end of its content,
\* and the table key is not the entry's key
C16_Witness ==
    /\ pc = "for_entries"
    /\ input.kind = "VXAce"
    /\ Len(writes) = 2
    /\ writes[2].contents = <<1, 2, 3, 4, 5>>
    /\ pos = entries[2].offset + 5
    /\ pos # input.table_end
    /\ key # entries[2].key
    /\ key = key0

\* the read of `bytes` bytes at the cursor p extends past the buffer end
PastEnd(p, bytes) == p < 0 \/ bytes < 0 \/ p + bytes > len

\* the next step of extract makes a read that extends past the buffer end:
\* the header of a buffer shorter than 8 bytes, an integer or a name of the
\* table, or the content of the entry at idx (reached when neither FilesExist
\* nor the sink ends the step before the read)
OutOfBoundsRead ==
    \/ pc = "parse_header" /\ (len < 6 \/ (Magic = ARCHIVE_HEADER /\ len < 8))
    \/ pc = "extract_entries" /\ engine_type = "VXAce" /\ PastEnd(pos, 4)
    \/ pc \in {"loop", "vxace_size", "vxace_key", "vxace_name_len", "older_size"}
           /\ PastEnd(pos, 4)
    \/ pc \in {"vxace_filename", "older_filename"} /\ PastEnd(pos, entry.capacity)
    \/ /\ pc = "for_entries"
       /\ idx <= Len(entries)
       /\ ~(exists(sink, Target(idx)) /\ ~force)
       /\ HasParent(Target(idx)) => create_dir_all(sink, parent(Target(idx))).ok
       /\ PastEnd(entries[idx].offset, entries[idx].size)

\* C17: a step of extract whose read extends past the buffer end stops
\* extract with a failure (a panic): the step writes no file, the entry it was
\* decoding or decrypting is neither recorded nor written, no step follows it
\* (no read, no sink operation) and Extracted is not returned.
C17_OutOfBoundsReadFails ==
    [][/\ OutOfBoundsRead =>
              /\ pc' = "done"
              /\ result'.kind = "Panic"
              /\ sink'.files = sink.files
              /\ UNCHANGED <<writes, entries, idx>>
       /\ ~(pc = "done" /\ result.kind = "Panic")]_vars

\* the descriptor "a" of a 33-byte VXAce buffer, offset 40 and size 2: the
\* call has panicked at its content, no file "a" written
C17_Witness ==
    /\ pc = "done"
    /\ result.kind = "Panic"
    /\ engine_type = "VXAce"
    /\ len = 33
    /\ idx = 1
    /\ Len(entries) = 1
    /\ entries[1].offset + entries[1].size > len
    /\ ~exists(sink0, Target(1))
    /\ Target(1) \notin DOMAIN sink.files
    /\ writes = <<>>

\* extract_entries as one function of the Decrypter: the outcomes of the loop
\* of lines 253-291 from the Decrypter `self` with the list `es` so far
RECURSIVE FreshTable(_, _)
FreshTable(self, es) ==
    LET panic  == [ok |-> FALSE, self |-> self, entries |-> es]
        o      == vxace_offset(self)
        size   == decrypt_int(o.self)
        k      == decrypt_int(size.self)
        n      == decrypt_int(k.self)
        named  == reserve_exact([o.entry EXCEPT !.size = size.val, !.key = AsU32(k.val)],
                                n.val)
        vxname == decrypt_filename(n.self, named.entry)
        m      == decrypt_int(self)
        older  == reserve_exact(DefaultEntry, m.val)
        oname  == decrypt_filename(m.self, older.entry)
        r      == older_size(oname.self, oname.entry, es)
    IN  IF self.engine_type = "VXAce"
        THEN IF ~o.ok THEN {panic}
             ELSE IF o.stop THEN {[ok |-> TRUE, self |-> o.self, entries |-> es]}
             ELSE IF ~size.ok \/ ~k.ok \/ ~n.ok \/ ~named.ok THEN {panic}
             ELSE IF ~vxname.ok THEN {panic}
             ELSE FreshTable(vxname.self, Append(es, vxname.entry))
        ELSE IF ~m.ok \/ ~older.ok THEN {panic}
             ELSE IF ~oname.ok THEN {panic}
             ELSE IF ~r.ok THEN {panic}
             ELSE (IF r.entry.size < 0 THEN {panic} ELSE {})
                      \cup (IF r.stop
                            THEN {[ok |-> TRUE, self |-> r.self, entries |-> r.entries]}
                            ELSE FreshTable(r.self, r.entries))

\* the loop of lines 335-349 as one function: the result, the writes and the
\* sink it ends with
RECURSIVE FreshWrites(_, _, _, _, _)
FreshWrites(self, s, es, i, ws) ==
    IF i > Len(es) THEN [result |-> Outcome("Extracted"), writes |-> ws, sink |-> s]
    ELSE LET r == extract_entry(self, s, es[i])
         IN  IF r.status = "Written"
             THEN FreshWrites(r.self, r.sink, es, i + 1,
                              Append(ws, [path |-> r.path, contents |-> r.out]))
             ELSE [result |-> Outcome(r.status), writes |-> ws, sink |-> r.sink]

\* Decrypter::new(), force set, and one extract(bytes) on the sink s: the
\* outcomes it can have
FreshExtract(enabled, bytes, s) ==
    LET fresh  == set_force(new, enabled)
        header == parse_header(reset(fresh, bytes))
        seeded == vxace_seed(header.self)
        panic  == [result |-> Outcome("Panic"), writes |-> <<>>, sink |-> s]
    IN  IF header.status # "Ok"
        THEN {[result |-> [kind |-> header.status, found |-> header.found],
               writes |-> <<>>, sink |-> s]}
        ELSE IF ~seeded.ok THEN {panic}
        ELSE {IF t.ok THEN FreshWrites(t.self, s, t.entries, 1, <<>>) ELSE panic :
                 t \in FreshTable(seeded.self, <<>>)}

\* C18: every extract call, whatever calls the Decrypter has served before,
\* starts from cursor 0, variant Older and key 0xDEADCAFE with matching key
\* bytes, on the buffer of this call, and ends with an outcome, writes and a
\* sink that a newly constructed Decrypter with the same force flag has on the
\* same buffer and sink; force is what the call before leaves.
C18_ReusedLikeFresh ==
    /\ pc = "parse_header" =>
           /\ Self = reset(set_force(new, force), input.bytes)
           /\ pos = 0
           /\ engine_type = "Older"
           /\ key = OLDER_DEFAULT_KEY
           /\ key_bytes = to_le_bytes(OLDER_DEFAULT_KEY)
           /\ entries = <<>> /\ writes = <<>> /\ idx = 1
    /\ pc = "done" =>
           [result |-> result, writes |-> writes, sink |-> sink]
               \in FreshExtract(force, input.bytes, sink0)

\* the second call of a Decrypter, an Older archive extracted with force off,
\* after a first call that wrote "d/a.bin" and left a key that is not
\* 0xDEADCAFE
C18_Witness ==
    /\ calls = 2
    /\ pc = "done"
    /\ input.kind = "Older"
    /\ ~force
    /\ result.kind = "Extracted"
    /\ Len(writes) = 1
    /\ Under(<<<<100>>, <<97, 46, 98, 105, 110>>>>) \in DOMAIN sink0.files
    /\ key # OLDER_DEFAULT_KEY

\* the cursor at the start of the loop iteration the decoder is in: the
\* fields read so far in the iteration lie between it and the cursor
IterationStart ==
    CASE pc = "loop"           -> pos
      [] pc = "older_filename" -> pos - 4
      [] pc = "older_size"     -> pos - 4 - entry.capacity
      [] pc = "vxace_size"     -> pos - 4
      [] pc = "vxace_key"      -> pos - 8
      [] pc = "vxace_name_len" -> pos - 12
      [] pc = "vxace_filename" -> pos - 16
      [] OTHER                 -> pos

\* the least bytes a full iteration of the loop reads: two integers (Older),
\* four integers (VXAce)
IterationBytes == IF engine_type = "Older" THEN 8 ELSE 16

\* the decrypted name lengths and sizes so far are non-negative
NonNegative ==
    /\ entry.size >= 0
    /\ entry.capacity >= 0
    /\ \A i \in 1..Len(entries) : entries[i].size >= 0 /\ entries[i].capacity >= 0

\* C19: while the decrypted name lengths and sizes are non-negative, the
\* fields of an iteration are read one after another from the iteration's
\* start, an iteration that goes round the loop leaves the cursor at least 8
\* bytes (Older) or 16 bytes (VXAce) further, the descriptors number at most
\* length(buffer) / 8 (Older) or / 16 (VXAce), and table decoding ends: by the
\* buffer end, the zero-offset sentinel, or a failed read.
C19_TableDecodingTerminates ==
    /\ [][(pc \in TablePcs /\ NonNegative /\ NonNegative') =>
              /\ pos' >= pos
              /\ (pc' \in TablePcs \ {"loop"}) => IterationStart' = IterationStart
              /\ pc' = "loop" => pos' >= IterationStart + IterationBytes
              /\ pc' = "for_entries" =>
                     \/ engine_type = "Older" /\ pos' = len
                     \/ engine_type = "VXAce" /\ entry'.offset = 0
              /\ (pc' = "done" /\ pc # "done") => result'.kind = "Panic"]_vars
    /\ []((pc \in TablePcs \cup {"for_entries"} /\ NonNegative) =>
              IterationBytes * Len(entries) <= len)
    /\ (pc \in TablePcs) ~> (pc \notin TablePcs \/ ~NonNegative)

\* a VXAce table of two entries decoded, ended by the sentinel
C19_Witness ==
    /\ pc = "for_entries"
    /\ engine_type = "VXAce"
    /\ Len(entries) = 2
    /\ entry.offset = 0
    /\ NonNegative
    /\ pos = input.table_end
    /\ pos >= 8 + 4 + 2 * 16 + 4

=============================================================================
